---- MODULE Spec2Model ----
(***************************************************************************)
(* Asset loading / caching layer of "Inside the Fridge":                   *)
(*   OptimizedModelLoader  (js/optimizedModelLoader.js)                    *)
(*   ModelLoader           (js/objectDragControls_fixed.js)                *)
(* run on the single-threaded JavaScript event loop: one synchronous job   *)
(* at a time, promise reactions queued as microtasks in registration       *)
(* order, the microtask queue drained before the next macrotask.           *)
(***************************************************************************)
EXTENDS Integers, Sequences, FiniteSets, TLC

Paths == {"a.glb", "b.glb"}
Names == {"x", "y"}
Impls == {"OptimizedModelLoader", "ModelLoader"}

MaxCalls == 3
MaxClears == 1

\* const batchSize = 5 in processMaterialsAsync.
batchSize == 5

VARIABLES
    impl,             \* which loader class this instance is
    modelCache,       \* path -> id of the fetch whose gltf is cached, 0 = absent
    loadingPromises,  \* path -> id of the fetch whose promise is stored, 0 = absent
    loadedModels,     \* name -> instance id, 0 = absent
    scene,            \* instances added to the scene container
    loadingStats,     \* [totalLoads, cacheHits]
    fetches,          \* loader.load() operations started, in order
    calls,            \* loadModel invocations, in order
    microtasks,       \* queue of promise reaction jobs
    running,          \* application code is running synchronously
    clears,           \* number of clearCache calls made
    timers,           \* setTimeout callbacks waiting to fire, oldest first
    objects,          \* object id -> the vector and the material list it refers to
    vectors,          \* vector id -> transform value
    materials,        \* material list id -> sequence of material values
    task,             \* a task the application scheduled with setTimeout
    report,           \* what getCacheStats returned last, <<>> before any call
    removed,          \* what removeModel returned last, <<>> before any call
    progressive,      \* the loadModelsProgressively invocation
    disposables,      \* MemoryManager: the registered objects
    drag,             \* ObjectDragControls: its fields
    camera,           \* CameraControls: isEnabled and the movement flags
    keyboard,         \* the movement keys the user holds down
    page,             \* main.js: the loading sequence and the loading screen
    food,             \* FoodObjectManager: foodObjects and interactableObjects
    door              \* door -> open flag, rotation and the animation in progress

vars == <<impl, modelCache, loadingPromises, loadedModels, scene, loadingStats,
          fetches, calls, microtasks, running, clears, timers, objects, vectors,
          materials, task, report, removed, progressive, disposables,
          drag, camera, keyboard, page, food, door>>

\* The application around the loader.
env == <<task, report, removed, progressive, disposables, drag, camera, keyboard,
         page, food, door>>

\* The user interface and the page around the loader.
ui == <<drag, camera, keyboard, page, food, door>>

\* The scene graphs: what instantiation reads and writes besides the tables.
graph == <<objects, vectors, materials>>

\* The loader and the event loop it runs on, and what the application
\* observes of it.
loader == <<impl, modelCache, loadingPromises, loadedModels, scene, loadingStats,
            fetches, calls, microtasks, running, clears, timers, graph>>
around == <<task, report, removed, progressive, disposables>>

None == 0

Cont(c) == <<"cont", c>>
Caller(c) == <<"caller", c>>

\* The instance a call produces is identified with the call.
InstanceOf(c) == c

\* gltf.scene of fetch f, the scene graph the cache holds.
AssetOf(f) == MaxCalls + f

ObjectIds == 1..(2 * MaxCalls)

\* A transform as the asset file gives it, as a config places an instance,
\* and as dragging leaves it.
Authored == 0
Placed == 1
Dragged == 2
Transforms == {Placed, Dragged}

\* Material values: as parsed, touched (needsUpdate and side set, nothing
\* else), or as left by processing under a materialConfig.  A materialConfig
\* of null makes the material code throw on its first property read.
MaterialConfigs == {"default", "custom"}
NullConfig == "null"

NoObject == [position |-> None, material |-> None]

NoTask == [state |-> "none", at |-> {}, saw |-> {}]
Idle ==
    [pc |-> "idle", configs |-> <<>>, onProgress |-> "none", i |-> 0, call |-> 0,
     results |-> <<>>, progress |-> <<>>]

\* The number keys of objectMapping and the movement keys of CameraControls.
NumberKeys == 1..9
MoveKeys == {"KeyW", "KeyS", "KeyA", "KeyD", "KeyQ", "KeyE"}

\* No object: null.
Null == <<>>

\* ObjectDragControls after its constructor.
NewDragControls ==
    [objectMapping |-> [k \in NumberKeys |-> Null], allObjects |-> <<>>,
     selectedObject |-> Null, isDragging |-> FALSE, isEnabled |-> TRUE,
     listening |-> FALSE]

\* CameraControls after its constructor.
NewCameraControls == [isEnabled |-> TRUE, keys |-> [k \in MoveKeys |-> FALSE]]

\* The page before init(): no loading screen, nothing loaded.
NoPage == [screen |-> "none", at |-> "idle", step |-> 0, results |-> <<>>]

\* FoodObjectManager after its constructor: no entry, no interactable object.
\* Its scene holds the food objects, which their load() added; userData is
\* what registration writes on an object.
FoodNames == {"egg1", "cheese"}
FoodObjects == {1, 2}
NoItem == [object |-> None, interactable |-> FALSE]
NewFoodObjectManager ==
    [foodObjects |-> [n \in FoodNames |-> NoItem], interactableObjects |-> <<>>,
     scene |-> FoodObjects, userData |-> [o \in FoodObjects |-> "none"]]

\* The two fridge doors, closed and at rest.
Doors == {"upper", "lower"}
ClosedDoor ==
    [open |-> FALSE, rotation |-> 0, pending |-> FALSE, startRotation |-> 0,
     targetRotation |-> 0, elapsed |-> 0, toggles |-> 0]

\* The user interface after the constructors.
InitUi ==
    /\ drag = NewDragControls
    /\ camera = NewCameraControls
    /\ keyboard = {}
    /\ page = NoPage
    /\ food = NewFoodObjectManager
    /\ door = [d \in Doors |-> ClosedDoor]

\* The application around a new loader: nothing scheduled, reported,
\* removed or registered.
InitEnv ==
    /\ task = NoTask
    /\ report = <<>>
    /\ removed = <<>>
    /\ progressive = Idle
    /\ disposables = {}
    /\ InitUi

\* A loader after its constructor.
InitLoader ==
    /\ impl \in Impls
    /\ modelCache = [p \in Paths |-> None]
    /\ loadingPromises = [p \in Paths |-> None]
    /\ loadedModels = [n \in Names |-> None]
    /\ scene = {}
    /\ loadingStats = [totalLoads |-> 0, cacheHits |-> 0]
    /\ fetches = <<>>
    /\ calls = <<>>
    /\ microtasks = <<>>
    /\ running = FALSE
    /\ clears = 0
    /\ timers = <<>>
    /\ objects = [o \in ObjectIds |-> NoObject]
    /\ vectors = [o \in ObjectIds |-> Authored]
    /\ materials = [o \in ObjectIds |-> <<>>]

Init == InitLoader /\ InitEnv

\* Application code can act while its job runs, or start a job (macrotask)
\* when the microtask queue has drained.  `running` is only recorded while
\* microtasks wait: with none waiting, ending the job changes nothing.
EnvCanRun == running \/ microtasks = <<>>

\* Paths and names are opaque keys, so a call draws its key from the ones
\* already used and one representative of the unused ones.
Canonical(S, used) ==
    used \cup (IF S \subseteq used THEN {}
               ELSE {CHOOSE x \in S \ used : TRUE})

IsOptimized == impl = "OptimizedModelLoader"

Branch_NoPendingCheck(p) ==
    IF modelCache[p] # None THEN "hit" ELSE "new"

Branch_NoCacheCheck(p) ==
    IF loadingPromises[p] # None THEN "wait" ELSE "new"

\* loadModel's three-way test: cached, else already loading, else new.
Branch(p) ==
    IF modelCache[p] # None THEN "hit"
    ELSE IF loadingPromises[p] # None THEN "wait"
    ELSE "new"

\* The fetches of path p that loader.load has started so far.
FetchesOf(p) == {f \in DOMAIN fetches : fetches[f].path = p}
InFlight(p) == {f \in FetchesOf(p) : fetches[f].state = "pending"}

\* createInstance / createModelInstance: add to the scene, register the
\* clone under the config's name.
SceneAfterCreate(c) == scene \cup {InstanceOf(c)}
LoadedAfterCreate(c, n) == [loadedModels EXCEPT ![n] = InstanceOf(c)]

\* `await promise`: the continuation is a reaction of the promise while it
\* is pending, and a microtask at once when it has settled.
AwaitFetch(f, c) ==
    IF fetches[f].state = "pending"
    THEN /\ fetches' = [fetches EXCEPT ![f].reactions = Append(@, c)]
         /\ microtasks' = microtasks
    ELSE /\ fetches' = fetches
         /\ microtasks' = Append(microtasks, Cont(c))

StatsAfterCall_CountWaits(b) ==
    [totalLoads |-> loadingStats.totalLoads + 1,
     cacheHits |-> loadingStats.cacheHits + (IF b # "new" THEN 1 ELSE 0)]

StatsAfterCall_HitsNotRequests(b) ==
    [totalLoads |-> loadingStats.totalLoads + (IF b = "hit" THEN 0 ELSE 1),
     cacheHits |-> loadingStats.cacheHits + (IF b = "hit" THEN 1 ELSE 0)]

\* The statistics loadModel has after counting this call.
StatsAfterCall(b) ==
    [totalLoads |-> loadingStats.totalLoads + 1,
     cacheHits |-> loadingStats.cacheHits + (IF b = "hit" THEN 1 ELSE 0)]

\* A modelConfig: path, name, a transform (None when the config gives none),
\* processMaterials and materialConfig.
Config(p, n, t, pm, mc) ==
    [path |-> p, name |-> n, transform |-> t, processMaterials |-> pm,
     materialConfig |-> mc]

\* The config of main.js's loaders stripped to what the tables depend on.
Plain(p, n) == Config(p, n, None, FALSE, "default")

\* A loadModel invocation: its config, the branch it took, the gltf it uses
\* or awaits, where it is suspended, the error it was rejected with, and the
\* progress of its material loop (index i, yields made, largest batch).
NewCall(cfg, b, f, pc) ==
    [path |-> cfg.path, name |-> cfg.name, transform |-> cfg.transform,
     processMaterials |-> cfg.processMaterials,
     materialConfig |-> cfg.materialConfig,
     branch |-> b, gltf |-> f, pc |-> pc, error |-> None,
     i |-> 0, yields |-> 0, batch |-> 0]

PendingAfterStart_NotStored(p, f) == loadingPromises

\* loadingPromises after a new load stores its promise.
PendingAfterStart(p, f) == [loadingPromises EXCEPT ![p] = f]

Min(a, b) == IF a < b THEN a ELSE b

\* The error a call is rejected with when instantiation throws (the errors
\* of failed loads are named by the fetch).
InstantiationError == -1

\* calls with call c's record set to r (c is the next call or an earlier one).
SetCall(c, r) == IF c > Len(calls) THEN Append(calls, r) ELSE [calls EXCEPT ![c] = r]

ClonePosition_Shared(c, f) == objects[AssetOf(f)].position

\* gltf.scene.clone() (THREE.Object3D.clone): the clone is a new object
\* with a vector of its own, into which the source's value is copied ...
ClonePosition(c, f) == InstanceOf(c)

\* ... and its meshes refer to the source's materials (Mesh.copy assigns
\* the material reference, it does not clone the material).
CloneMaterial(c, f) == objects[AssetOf(f)].material

ObjectsAfterClone(c, f) ==
    [objects EXCEPT ![InstanceOf(c)] =
        [position |-> ClonePosition(c, f), material |-> CloneMaterial(c, f)]]

ApplyTransform_ToSource(c, f, t, vs) ==
    IF t = None THEN vs ELSE [vs EXCEPT ![objects[AssetOf(f)].position] = t]

\* model.scale.set / position.set / rotation.set, when the config gives them.
ApplyTransform(c, f, t, vs) ==
    IF t = None THEN vs ELSE [vs EXCEPT ![ClonePosition(c, f)] = t]

\* The vectors after the clone and the config's transform.
VectorsAfterClone(c, f, t) ==
    ApplyTransform(c, f, t,
        [vectors EXCEPT ![ClonePosition(c, f)] = vectors[objects[AssetOf(f)].position]])

\* What processSingleMaterial / enhanceMaterial leaves in a material:
\* OptimizedModelLoader with a config of {} sets needsUpdate only,
\* ModelLoader always writes side, roughness, metalness.
MaterialValue(mc) == IF IsOptimized /\ mc = "default" THEN "touched" ELSE mc

Yields_Never(i) == FALSE

\* `if (i % batchSize === 0)`: the loop yields after the batch at index i.
Yields(i) == i % batchSize = 0

\* The index at which processMaterialsAsync, at the head of its loop with
\* index i over len materials, next yields; len when it runs to the end.
RECURSIVE YieldIndex(_, _)
YieldIndex(i, len) ==
    IF i >= len THEN len
    ELSE IF Yields(i) THEN i
    ELSE YieldIndex(i + batchSize, len)

\* The material list with entries from..to processed.
Processed(list, from, to, v) ==
    [k \in 1..Len(list) |-> IF from <= k /\ k <= to THEN v ELSE list[k]]

\* OptimizedModelLoader.createInstance(gltf, modelConfig) for call c with
\* record r, up to its first suspension point or its end.  q is the
\* microtask queue the running job leaves behind.
OptimizedCreateInstance(c, r, q) ==
    LET f == r.gltf
        list == CloneMaterial(c, f)
        len == Len(materials[list])
        stop == YieldIndex(0, len)
        done == Min(stop + batchSize, len)
    IN  /\ objects' = ObjectsAfterClone(c, f)
        /\ vectors' = VectorsAfterClone(c, f, r.transform)
        /\ IF ~r.processMaterials THEN
               /\ scene' = SceneAfterCreate(c)
               /\ loadedModels' = LoadedAfterCreate(c, r.name)
               /\ calls' = SetCall(c, [r EXCEPT !.pc = "inst"])
               /\ microtasks' = Append(q, Cont(c))
               /\ UNCHANGED <<materials, timers>>
           ELSE IF len > 0 /\ r.materialConfig = NullConfig THEN
               /\ calls' = SetCall(c, [r EXCEPT !.pc = "materials",
                                                !.error = InstantiationError])
               /\ microtasks' = Append(q, Cont(c))
               /\ UNCHANGED <<scene, loadedModels, materials, timers>>
           ELSE
               /\ materials' = [materials EXCEPT ![list] =
                                   Processed(@, 1, done, MaterialValue(r.materialConfig))]
               /\ IF stop < len
                  THEN /\ calls' = SetCall(c, [r EXCEPT !.pc = "yield", !.i = stop,
                                                        !.batch = done, !.yields = 1])
                       /\ timers' = Append(timers, Cont(c))
                       /\ microtasks' = q
                  ELSE /\ calls' = SetCall(c, [r EXCEPT !.pc = "materials", !.i = stop,
                                                        !.batch = done])
                       /\ microtasks' = Append(q, Cont(c))
                       /\ timers' = timers
               /\ UNCHANGED <<scene, loadedModels>>

\* ModelLoader.createModelInstance(gltf, modelConfig), which is synchronous.
ModelLoaderCreateInstance(c, r, q) ==
    LET f == r.gltf
        list == CloneMaterial(c, f)
        len == Len(materials[list])
    IN  /\ objects' = ObjectsAfterClone(c, f)
        /\ vectors' = VectorsAfterClone(c, f, r.transform)
        /\ timers' = timers
        /\ microtasks' = Append(q, Caller(c))
        /\ IF r.processMaterials /\ len > 0 /\ r.materialConfig = NullConfig THEN
               /\ materials' = [materials EXCEPT ![list] = Processed(@, 1, 1, "touched")]
               /\ calls' = SetCall(c, [r EXCEPT !.pc = "thrown",
                                                !.error = InstantiationError])
               /\ UNCHANGED <<scene, loadedModels>>
           ELSE
               /\ materials' = IF r.processMaterials
                               THEN [materials EXCEPT ![list] =
                                        Processed(@, 1, len, MaterialValue(r.materialConfig))]
                               ELSE materials
               /\ scene' = SceneAfterCreate(c)
               /\ loadedModels' = LoadedAfterCreate(c, r.name)
               /\ calls' = SetCall(c, [r EXCEPT !.pc = "returned"])

\* OptimizedModelLoader.loadModel, up to its first suspension point.
OptimizedLoadModel(cfg) ==
    LET c == Len(calls) + 1
        p == cfg.path
        b == Branch(p)
    IN  /\ loadingStats' = StatsAfterCall(b)
        /\ IF b = "hit" THEN
               /\ OptimizedCreateInstance(c, NewCall(cfg, b, modelCache[p], "hit"), microtasks)
               /\ UNCHANGED <<fetches, loadingPromises>>
           ELSE IF b = "wait" THEN
               /\ calls' = Append(calls, NewCall(cfg, b, loadingPromises[p], "wait"))
               /\ AwaitFetch(loadingPromises[p], c)
               /\ UNCHANGED <<scene, loadedModels, loadingPromises, timers, graph>>
           ELSE
               LET f == Len(fetches) + 1 IN
               /\ fetches' = Append(fetches, [path |-> p, state |-> "pending",
                                              reactions |-> <<c>>, cleared |-> FALSE])
               /\ loadingPromises' = PendingAfterStart(p, f)
               /\ calls' = Append(calls, NewCall(cfg, b, f, "disk"))
               /\ UNCHANGED <<scene, loadedModels, microtasks, timers, graph>>
        /\ UNCHANGED modelCache

\* ModelLoader.loadModel, up to its first suspension point.  A cache hit
\* returns the instance synchronously, so the caller's await is queued at once.
ModelLoaderLoadModel(cfg) ==
    LET c == Len(calls) + 1
        p == cfg.path
        b == Branch(p)
    IN  /\ IF b = "hit" THEN
               /\ ModelLoaderCreateInstance(c, NewCall(cfg, b, modelCache[p], "hit"), microtasks)
               /\ UNCHANGED <<fetches, loadingPromises>>
           ELSE IF b = "wait" THEN
               /\ calls' = Append(calls, NewCall(cfg, b, loadingPromises[p], "wait"))
               /\ AwaitFetch(loadingPromises[p], c)
               /\ UNCHANGED <<scene, loadedModels, loadingPromises, timers, graph>>
           ELSE
               LET f == Len(fetches) + 1 IN
               /\ fetches' = Append(fetches, [path |-> p, state |-> "pending",
                                              reactions |-> <<c>>, cleared |-> FALSE])
               /\ loadingPromises' = PendingAfterStart(p, f)
               /\ calls' = Append(calls, NewCall(cfg, b, f, "file"))
               /\ UNCHANGED <<scene, loadedModels, microtasks, timers, graph>>
        /\ UNCHANGED <<modelCache, loadingStats>>

\* The application calls loadModel(cfg).
LoadModelWith(cfg) ==
    /\ EnvCanRun
    /\ Len(calls) < MaxCalls
    /\ cfg.path \in Canonical(Paths, {calls[c].path : c \in DOMAIN calls})
    /\ cfg.name \in Canonical(Names, {calls[c].name : c \in DOMAIN calls})
    /\ IF IsOptimized THEN OptimizedLoadModel(cfg) ELSE ModelLoaderLoadModel(cfg)
    /\ running' = (microtasks' # <<>>)
    /\ UNCHANGED <<impl, env, clears>>

\* The application calls loadModel({path: p, name: n}).
LoadModel(p, n) == LoadModelWith(Plain(p, n))

Outcome(f) == fetches[f].state

CacheOnLoad_NotStored(f) == modelCache

\* modelCache after the loader's onLoad callback ran for fetch f:
\* OptimizedModelLoader caches inside the callback, ModelLoader's callback
\* only resolves the promise.
CacheOnLoad(f) ==
    IF IsOptimized THEN [modelCache EXCEPT ![fetches[f].path] = f] ELSE modelCache

\* The promise's reactions become microtasks in registration order.
Reactions(f) == [i \in 1..Len(fetches[f].reactions) |-> Cont(fetches[f].reactions[i])]

\* The scene graph the parser hands to onLoad: an object with its own
\* vector and a list of m materials.
Parsed(f, m) ==
    /\ objects' = [objects EXCEPT ![AssetOf(f)] =
                      [position |-> AssetOf(f), material |-> AssetOf(f)]]
    /\ materials' = [materials EXCEPT ![AssetOf(f)] = [k \in 1..m |-> "parsed"]]
    /\ vectors' = vectors

\* The GLTFLoader calls onLoad (ok) with an asset of m materials, or
\* onError, for fetch f, in a job of its own.
SettleWith(f, ok, m) ==
    /\ ~running
    /\ microtasks = <<>>
    /\ f \in DOMAIN fetches
    /\ fetches[f].state = "pending"
    /\ modelCache' = IF ok THEN CacheOnLoad(f) ELSE modelCache
    /\ IF ok THEN Parsed(f, m) ELSE UNCHANGED graph
    /\ microtasks' = Reactions(f)
    /\ fetches' = [fetches EXCEPT ![f].state = IF ok THEN "resolved" ELSE "rejected",
                                  ![f].reactions = <<>>]
    /\ UNCHANGED <<impl, env, loadingPromises, loadedModels, scene, loadingStats,
                   calls, running, clears, timers>>

Settle(f, ok) == SettleWith(f, ok, 1)

PendingAfterDelete_Kept(p) == loadingPromises

\* loadingPromises.delete(cacheKey)
PendingAfterDelete(p) == [loadingPromises EXCEPT ![p] = None]

\* loadModelFromDisk resumes from `await loadingPromise`: it deletes the
\* pending entry and returns or rethrows; loadModel is awaiting its promise.
ResumeDisk(c, rest) ==
    /\ loadingPromises' = PendingAfterDelete(calls[c].path)
    /\ calls' = [calls EXCEPT ![c].pc = "load"]
    /\ microtasks' = Append(rest, Cont(c))
    /\ UNCHANGED <<modelCache, loadedModels, scene, timers, graph>>

ResumeGltf_Placeholder(c, rest) ==
    /\ IF Outcome(calls[c].gltf) = "resolved"
       THEN OptimizedCreateInstance(c, calls[c], rest)
       ELSE /\ scene' = SceneAfterCreate(c)
            /\ loadedModels' = LoadedAfterCreate(c, calls[c].name)
            /\ calls' = [calls EXCEPT ![c].pc = "inst"]
            /\ microtasks' = Append(rest, Cont(c))
            /\ UNCHANGED <<timers, graph>>
    /\ UNCHANGED <<modelCache, loadingPromises>>

\* OptimizedModelLoader.loadModel resumes with the gltf (from
\* loadModelFromDisk or from the pending promise) and runs createInstance,
\* or resumes with the rejection, which its catch block rethrows.
ResumeGltf(c, rest) ==
    /\ IF Outcome(calls[c].gltf) = "resolved"
       THEN OptimizedCreateInstance(c, calls[c], rest)
       ELSE /\ calls' = [calls EXCEPT ![c].pc = "thrown", ![c].error = calls[c].gltf]
            /\ microtasks' = Append(rest, Caller(c))
            /\ UNCHANGED <<scene, loadedModels, timers, graph>>
    /\ UNCHANGED <<modelCache, loadingPromises>>

\* processMaterialsAsync resumes from `await this.yieldControl()`: the next
\* batch and another yield, or the end of the loop.
ResumeYield(c, rest) ==
    LET list == objects[InstanceOf(c)].material
        len == Len(materials[list])
        i == calls[c].i + batchSize
        stop == YieldIndex(i, len)
        done == Min(stop + batchSize, len)
        largest == IF done - i > calls[c].batch THEN done - i ELSE calls[c].batch
    IN  /\ materials' = [materials EXCEPT ![list] =
               Processed(@, i + 1, done, MaterialValue(calls[c].materialConfig))]
        /\ IF stop < len
           THEN /\ calls' = [calls EXCEPT ![c].i = stop, ![c].yields = @ + 1,
                                          ![c].batch = largest]
                /\ timers' = Append(timers, Cont(c))
                /\ microtasks' = rest
           ELSE /\ calls' = [calls EXCEPT ![c].i = stop, ![c].pc = "materials",
                                          ![c].batch = largest]
                /\ microtasks' = Append(rest, Cont(c))
                /\ timers' = timers
        /\ UNCHANGED <<modelCache, loadingPromises, loadedModels, scene, objects, vectors>>

ResumeMaterials_AddsFirst(c, rest) ==
    /\ scene' = SceneAfterCreate(c)
    /\ loadedModels' = LoadedAfterCreate(c, calls[c].name)
    /\ IF calls[c].error = None
       THEN /\ calls' = [calls EXCEPT ![c].pc = "inst"]
            /\ microtasks' = Append(rest, Cont(c))
       ELSE /\ calls' = [calls EXCEPT ![c].pc = "thrown"]
            /\ microtasks' = Append(rest, Caller(c))
    /\ UNCHANGED <<modelCache, loadingPromises, timers, graph>>

\* createInstance resumes from `await this.processMaterialsAsync(...)`:
\* it adds the model to the scene, registers it and returns it, or throws
\* what processMaterialsAsync threw, which loadModel's catch block rethrows.
ResumeMaterials(c, rest) ==
    /\ IF calls[c].error = None
       THEN /\ scene' = SceneAfterCreate(c)
            /\ loadedModels' = LoadedAfterCreate(c, calls[c].name)
            /\ calls' = [calls EXCEPT ![c].pc = "inst"]
            /\ microtasks' = Append(rest, Cont(c))
       ELSE /\ calls' = [calls EXCEPT ![c].pc = "thrown"]
            /\ microtasks' = Append(rest, Caller(c))
            /\ UNCHANGED <<scene, loadedModels>>
    /\ UNCHANGED <<modelCache, loadingPromises, timers, graph>>

\* OptimizedModelLoader.loadModel resumes from `await createInstance` and
\* returns the model: its promise fulfils and the caller's await is queued.
ResumeInst(c, rest) ==
    /\ calls' = [calls EXCEPT ![c].pc = "returned"]
    /\ microtasks' = Append(rest, Caller(c))
    /\ UNCHANGED <<modelCache, loadingPromises, loadedModels, scene, timers, graph>>

\* ModelLoader.loadModel (the call that started the load) resumes from
\* `await loadingPromise`.
ResumeFile(c, rest) ==
    /\ IF Outcome(calls[c].gltf) = "resolved"
       THEN /\ modelCache' = [modelCache EXCEPT ![calls[c].path] = calls[c].gltf]
            /\ ModelLoaderCreateInstance(c, calls[c], rest)
       ELSE /\ calls' = [calls EXCEPT ![c].pc = "thrown", ![c].error = calls[c].gltf]
            /\ microtasks' = Append(rest, Caller(c))
            /\ UNCHANGED <<modelCache, scene, loadedModels, timers, graph>>
    /\ loadingPromises' = PendingAfterDelete(calls[c].path)

\* ModelLoader.loadModel (a call that found the load pending) resumes.
ResumeWait(c, rest) ==
    /\ IF Outcome(calls[c].gltf) = "resolved"
       THEN ModelLoaderCreateInstance(c, calls[c], rest)
       ELSE /\ calls' = [calls EXCEPT ![c].pc = "thrown", ![c].error = calls[c].gltf]
            /\ microtasks' = Append(rest, Caller(c))
            /\ UNCHANGED <<scene, loadedModels, timers, graph>>
    /\ UNCHANGED <<modelCache, loadingPromises>>

\* The event loop runs the oldest microtask: a continuation of a loadModel
\* call, or the continuation of the application code that awaited one.
RunMicrotask ==
    /\ ~running
    /\ microtasks # <<>>
    /\ LET job == Head(microtasks)
           c == job[2]
           rest == Tail(microtasks)
       IN  IF job[1] = "caller"
           THEN /\ running' = (rest # <<>>)
                /\ microtasks' = rest
                /\ UNCHANGED <<modelCache, loadingPromises, loadedModels, scene, calls,
                               timers, graph>>
           ELSE /\ running' = FALSE
                /\ CASE calls[c].pc = "disk" -> ResumeDisk(c, rest)
                     [] calls[c].pc = "load" -> ResumeGltf(c, rest)
                     [] calls[c].pc = "wait" /\ IsOptimized -> ResumeGltf(c, rest)
                     [] calls[c].pc = "yield" -> ResumeYield(c, rest)
                     [] calls[c].pc = "materials" -> ResumeMaterials(c, rest)
                     [] calls[c].pc = "inst" -> ResumeInst(c, rest)
                     [] calls[c].pc = "file" -> ResumeFile(c, rest)
                     [] calls[c].pc = "wait" /\ ~IsOptimized -> ResumeWait(c, rest)
    /\ UNCHANGED <<impl, env, loadingStats, fetches, clears>>

\* The calls suspended in a yield of their material loop.
Yielding == {c \in DOMAIN calls : calls[c].pc = "yield"}

\* The oldest setTimeout callback fires in a job of its own (timers of one
\* delay fire in the order they were set): it resolves the promise of
\* yieldControl, whose awaiter becomes a microtask, or it is the
\* application's task, which runs.
TimerFires ==
    /\ ~running
    /\ microtasks = <<>>
    /\ timers # <<>>
    /\ IF Head(timers)[1] = "task"
       THEN /\ task' = [task EXCEPT !.state = "ran", !.saw = Yielding]
            /\ microtasks' = microtasks
       ELSE /\ microtasks' = <<Head(timers)>>
            /\ task' = task
    /\ timers' = Tail(timers)
    /\ UNCHANGED <<impl, ui, report, removed, progressive, disposables, modelCache,
                   loadingPromises, loadedModels, scene, loadingStats, fetches,
                   calls, running, clears, graph>>

\* clearCache(): both tables are emptied; loads in flight keep running.
ClearCache ==
    /\ EnvCanRun
    /\ clears < MaxClears
    /\ clears' = clears + 1
    /\ running' = (microtasks # <<>>)
    /\ modelCache' = [p \in Paths |-> None]
    /\ loadingPromises' = [p \in Paths |-> None]
    /\ fetches' = [f \in DOMAIN fetches |->
                     IF fetches[f].state = "pending"
                     THEN [fetches[f] EXCEPT !.cleared = TRUE] ELSE fetches[f]]
    /\ UNCHANGED <<impl, env, loadedModels, scene, loadingStats, calls, microtasks,
                   timers, graph>>

\* The application's synchronous code returns to the event loop.
EndJob ==
    /\ running
    /\ running' = FALSE
    /\ UNCHANGED <<impl, env, modelCache, loadingPromises, loadedModels, scene,
                   loadingStats, fetches, calls, microtasks, clears, timers, graph>>

Next ==
    \/ \E p \in Paths, n \in Names : LoadModel(p, n)
    \/ \E f \in 1..MaxCalls, ok \in BOOLEAN : Settle(f, ok)
    \/ RunMicrotask
    \/ ClearCache
    \/ EndJob

Spec == Init /\ [][Next]_vars

TypeOK ==
    /\ impl \in Impls
    /\ modelCache \in [Paths -> 0..MaxCalls]
    /\ loadingPromises \in [Paths -> 0..MaxCalls]
    /\ loadedModels \in [Names -> 0..MaxCalls]
    /\ scene \subseteq 1..MaxCalls
    /\ Len(calls) <= MaxCalls
    /\ Len(fetches) <= Len(calls)
    /\ running \in BOOLEAN
    /\ clears \in 0..MaxClears
    /\ \A o \in ObjectIds : objects[o].position \in {None} \cup ObjectIds
    /\ \A o \in ObjectIds : vectors[o] \in {Authored} \cup Transforms

(***************************************************************************)
(* Vocabulary of the properties                                            *)
(***************************************************************************)

\* The call that started fetch f, and the calls that await f's promise.
Starter(f) == CHOOSE c \in DOMAIN calls : calls[c].branch = "new" /\ calls[c].gltf = f
Attached(f) == {c \in DOMAIN calls : calls[c].gltf = f /\ calls[c].branch # "hit"}

\* The loadModel promise of call c has settled.
Fulfilled(c) == calls[c].pc = "returned"
RejectedWith(c, f) == calls[c].pc = "thrown" /\ calls[c].error = f
Settled(c) == calls[c].pc \in {"returned", "thrown"}

\* Call c has a continuation waiting in the microtask queue.
Queued(c) == \E i \in DOMAIN microtasks : microtasks[i] = Cont(c)

\* The calls for f's path that were issued after the call that started f.
LaterCalls(f) ==
    {d \in DOMAIN calls : d > Starter(f) /\ calls[d].path = fetches[f].path}

\* clearCache was never called while a load of path p was in flight.
NoClearInFlight(p) == \A f \in FetchesOf(p) : ~fetches[f].cleared

\* What the N calls sharing fetch f receive once it has settled and the
\* microtask queue has drained.
SharedOutcome(f) ==
    /\ Outcome(f) = "resolved" =>
           \A c \in Attached(f) : Fulfilled(c) /\ InstanceOf(c) \in scene
    /\ Outcome(f) = "rejected" =>
           \A c \in Attached(f) : RejectedWith(c, f)

\* While f is in flight, every later call for its path awaits f.
SharesFetch(f) ==
    \A d \in LaterCalls(f) : calls[d].branch = "wait" /\ calls[d].gltf = f

C2_CachedXorPending ==
    IsOptimized =>
        \A p \in Paths : ~(modelCache[p] # None /\ loadingPromises[p] # None)

AboutToResume(c) == microtasks # <<>> /\ Head(microtasks) = Cont(c)

\* The promise of fetch f has resolved and reactions of it have yet to run.
JustResolved(f) ==
    /\ Outcome(f) = "resolved"
    /\ \E c \in Attached(f) : Queued(c) /\ calls[c].pc \in {"disk", "file", "wait"}

CachedNotPending(p) == modelCache[p] # None /\ loadingPromises[p] = None

\* Once the starting call has resumed, f's promise is no pending entry.
PendingRemoved(f) ==
    (Outcome(f) # "pending" /\ calls[Starter(f)].pc \notin {"disk", "file"})
        => loadingPromises[fetches[f].path] # f

(***************************************************************************)
(* C4  As stated, for both loaders: the record is in modelCache from the   *)
(* moment the load's promise resolves, and every call that awaited the     *)
(* promise resumes with the path cached and not pending.                   *)
(***************************************************************************)
C4_Original ==
    \A f \in DOMAIN fetches :
        /\ JustResolved(f) => modelCache[fetches[f].path] # None
        /\ \A c \in Attached(f) :
               (Outcome(f) = "resolved" /\ AboutToResume(c)
                    /\ calls[c].pc \in {"load", "wait", "file"})
                   => CachedNotPending(fetches[f].path)
        /\ PendingRemoved(f)

\* C4 amended: OptimizedModelLoader stores the record before the promise
\* resolves; ModelLoader stores it in the continuation of the call that
\* started the load.  In both, that call's continuation removes the pending
\* entry, and every call that took the await-pending branch (and, in
\* OptimizedModelLoader, loadModel of the starting call) resumes with the
\* path cached and not pending.
C4_CachedBeforeAwaitersResume ==
    \A f \in DOMAIN fetches :
        /\ (IsOptimized /\ JustResolved(f)) => modelCache[fetches[f].path] # None
        /\ \A c \in Attached(f) :
               (Outcome(f) = "resolved" /\ AboutToResume(c)
                    /\ calls[c].pc \in {"load", "wait"})
                   => CachedNotPending(fetches[f].path)
        /\ PendingRemoved(f)

C4_Witness ==
    \E f \in DOMAIN fetches : \E c \in Attached(f) :
        /\ Outcome(f) = "resolved"
        /\ Cardinality(Attached(f)) >= 2
        /\ AboutToResume(c)
        /\ calls[c].pc = "wait"
        /\ CachedNotPending(fetches[f].path)

(***************************************************************************)
(* C6  As stated: once a failed fetch of P has been delivered to all its   *)
(* calls, and before any further call for P, neither table contains P, no  *)
(* newer fetch of P exists, and the next loadModel(P) starts a new fetch.  *)
(***************************************************************************)
FailureDelivered(f) ==
    /\ Outcome(f) = "rejected"
    /\ \A c \in Attached(f) : RejectedWith(c, f)
    /\ LaterCalls(f) \subseteq Attached(f)

CleanAfterFailure(f) ==
    /\ modelCache[fetches[f].path] = None
    /\ loadingPromises[fetches[f].path] = None
    /\ \A g \in FetchesOf(fetches[f].path) : g <= f
    /\ Branch(fetches[f].path) = "new"

C7_FailureFanOut ==
    /\ \A f \in DOMAIN fetches : Outcome(f) = "rejected" =>
           \A c \in Attached(f) :
               /\ InstanceOf(c) \notin scene
               /\ \A n \in Names : loadedModels[n] # InstanceOf(c)
               /\ calls[c].pc \notin {"inst", "returned"}
               /\ ~Queued(c) => RejectedWith(c, f)
    /\ \A i \in scene : \E c \in DOMAIN calls :
           /\ i = InstanceOf(c)
           /\ calls[c].branch = "hit" \/ Outcome(calls[c].gltf) = "resolved"

C7_Witness ==
    \E f \in DOMAIN fetches :
        /\ Outcome(f) = "rejected"
        /\ Cardinality(Attached(f)) >= 2
        /\ \A c \in Attached(f) : RejectedWith(c, f)

\* The call a LoadModel step adds.
Issued == Len(calls') = Len(calls) + 1
NewestCall == calls'[Len(calls')]

(***************************************************************************)
(* C5  A loadModel call for a path that is in modelCache starts no fetch,  *)
(* proceeds to instantiation and leaves the record in place, so the        *)
(* number of fetches of the path stays constant over such calls.           *)
(***************************************************************************)
C5_CacheHitNeverFetches ==
    [][\A p \in Paths :
          (modelCache[p] # None /\ Issued /\ NewestCall.path = p) =>
              /\ fetches' = fetches
              /\ modelCache'[p] = modelCache[p]
              /\ NewestCall.branch = "hit"
              /\ InstanceOf(Len(calls')) \in scene']_vars

C5_Witness ==
    \E c \in DOMAIN calls :
        /\ calls[c].branch = "hit"
        /\ Cardinality(FetchesOf(calls[c].path)) = 1
        /\ Cardinality({d \in DOMAIN calls : calls[d].path = calls[c].path}) >= 2

Hits == {c \in DOMAIN calls : calls[c].branch = "hit"}
Misses == DOMAIN calls \ Hits
DistinctMisses == \A c, d \in Misses : c # d => calls[c].path # calls[d].path

\* (cacheHits / totalLoads * 100).toFixed(1), in tenths of a percent.
HitRate ==
    IF loadingStats.totalLoads > 0
    THEN (2000 * loadingStats.cacheHits + loadingStats.totalLoads)
             \div (2 * loadingStats.totalLoads)
    ELSE 0

\* OptimizedModelLoader.getCacheStats() (averageLoadTime, a wall-clock
\* figure, is left out).
getCacheStats ==
    [totalLoads |-> loadingStats.totalLoads,
     cacheHits |-> loadingStats.cacheHits,
     hitRate |-> HitRate,
     cachedModels |-> Cardinality({p \in Paths : modelCache[p] # None})]

(***************************************************************************)
(* C8  As stated: after H hits and M misses on M distinct paths, all       *)
(* settled, getCacheStats reports totalLoads = H + M, cacheHits = H and    *)
(* cachedModels = M.                                                       *)
(***************************************************************************)
C8_Original ==
    (IsOptimized /\ DistinctMisses /\ \A c \in DOMAIN calls : Settled(c)) =>
        /\ getCacheStats.totalLoads = Cardinality(Hits) + Cardinality(Misses)
        /\ getCacheStats.cacheHits = Cardinality(Hits)
        /\ getCacheStats.cachedModels = Cardinality(Misses)

\* C8 amended: totalLoads = H + M and cacheHits = H always; cachedModels is
\* the number of the M misses whose load has succeeded (M when all did),
\* provided clearCache has not been called.
C8_StatisticsAccuracy ==
    IsOptimized =>
        /\ getCacheStats.totalLoads = Cardinality(Hits) + Cardinality(Misses)
        /\ getCacheStats.cacheHits = Cardinality(Hits)
        /\ (DistinctMisses /\ clears = 0) =>
               getCacheStats.cachedModels =
                   Cardinality({c \in Misses : Outcome(calls[c].gltf) = "resolved"})

C8_Witness ==
    /\ IsOptimized
    /\ DistinctMisses
    /\ clears = 0
    /\ \A c \in DOMAIN calls : Settled(c)
    /\ Cardinality(Hits) = 1
    /\ Cardinality(Misses) = 2
    /\ getCacheStats.cachedModels = 1

(***************************************************************************)
(* C9  As stated: two calls for one uncached path under different names,   *)
(* back-to-back, give one fetch, two instances registered under the two    *)
(* names, hits = 1 and requests = 2.                                       *)
(***************************************************************************)
\* The first call has just been made on a fresh loader and nothing has run
\* since: its load is in flight and awaited by that call alone.
AfterFirstCall ==
    /\ IsOptimized
    /\ Len(calls) = 1
    /\ clears = 0
    /\ Outcome(calls[1].gltf) = "pending"

\* The step is the second call, back-to-back, same path, another name.
SecondCallBackToBack ==
    /\ AfterFirstCall
    /\ Issued
    /\ NewestCall.path = calls[1].path
    /\ NewestCall.name # calls[1].name

\* Both calls of the pair have received their instances.
PairDone ==
    /\ IsOptimized
    /\ Len(calls) = 2
    /\ clears = 0
    /\ calls[2].path = calls[1].path
    /\ calls[2].name # calls[1].name
    /\ calls[2].gltf = calls[1].gltf
    /\ calls[2].branch # "hit"
    /\ Fulfilled(1) /\ Fulfilled(2)

OneFetchTwoInstances ==
    /\ Len(fetches) = 1
    /\ {InstanceOf(1), InstanceOf(2)} \subseteq scene
    /\ InstanceOf(1) # InstanceOf(2)
    /\ loadedModels[calls[1].name] = InstanceOf(1)
    /\ loadedModels[calls[2].name] = InstanceOf(2)
    /\ getCacheStats.totalLoads = 2

C9_Original ==
    /\ [][SecondCallBackToBack =>
             (Len(fetches') = 1 /\ loadingStats'.totalLoads = 2
                 /\ loadingStats'.cacheHits = 1)]_vars
    /\ [](PairDone => (OneFetchTwoInstances /\ getCacheStats.cacheHits = 1))

\* C9 amended: the same, with hits = 0: the second call awaits the pending
\* load, which is not a cache hit.
C9_BackToBack ==
    /\ [][SecondCallBackToBack =>
             (Len(fetches') = 1 /\ loadingStats'.totalLoads = 2
                 /\ loadingStats'.cacheHits = 0 /\ NewestCall.branch = "wait"
                 /\ NewestCall.gltf = calls[1].gltf)]_vars
    /\ [](PairDone => (OneFetchTwoInstances /\ getCacheStats.cacheHits = 0))

C9_Witness == PairDone /\ OneFetchTwoInstances

(***************************************************************************)
(* C10  cacheHits grows by one in exactly the loadModel calls that find    *)
(* the path in modelCache at call time and in no other step, and           *)
(* cacheHits <= totalLoads always.                                         *)
(***************************************************************************)
C10_HitsOnlyOnCacheHit ==
    /\ [](loadingStats.cacheHits <= loadingStats.totalLoads)
    /\ [][IsOptimized =>
             loadingStats'.cacheHits = loadingStats.cacheHits +
                 (IF Issued /\ modelCache[NewestCall.path] # None THEN 1 ELSE 0)]_vars

C10_Witness ==
    /\ IsOptimized
    /\ loadingStats.cacheHits = 1
    /\ loadingStats.totalLoads = 3
    /\ \E c \in DOMAIN calls : calls[c].branch = "wait"

(***************************************************************************)
(* Instances and their transforms                                          *)
(***************************************************************************)

\* The application moves an instance it holds (dragging sets position.x
\* and position.z of the selected object).
MutateTransform(c, v) ==
    /\ EnvCanRun
    /\ c \in DOMAIN calls
    /\ InstanceOf(c) \in scene
    /\ vectors' = [vectors EXCEPT ![objects[InstanceOf(c)].position] = v]
    /\ running' = (microtasks # <<>>)
    /\ UNCHANGED <<impl, env, modelCache, loadingPromises, loadedModels, scene,
                   loadingStats, fetches, calls, microtasks, clears, timers,
                   objects, materials>>

\* The one asset the instances are made from.
TheAsset == CHOOSE p \in Paths : TRUE

\* Calls for one asset whose configs give or omit a transform, and later
\* moves of the instances.
NextInstances ==
    \/ \E n \in Names, t \in {None, Placed} :
           LoadModelWith(Config(TheAsset, n, t, FALSE, "default"))
    \/ \E f \in 1..MaxCalls, ok \in BOOLEAN : Settle(f, ok)
    \/ RunMicrotask
    \/ EndJob
    \/ \E c \in 1..MaxCalls : MutateTransform(c, Dragged)

SpecInstances == Init /\ [][NextInstances]_vars

\* Object o exists, and the transform read through it.
Exists(o) == objects[o].position # None
TransformOf(o) == vectors[objects[o].position]

\* The transform createInstance gives call c's instance.
ConfiguredTransform(c) ==
    IF calls[c].transform = None THEN Authored ELSE calls[c].transform

(***************************************************************************)
(* C11  Instances of one cached asset have independent transforms: the     *)
(* transform of an existing object (an instance or the cached scene graph) *)
(* changes only when the application moves that very instance, and that    *)
(* step changes the transform of no other instance and of no cached graph. *)
(***************************************************************************)
C11_IndependentTransforms ==
    [][\A o \in ObjectIds :
          (Exists(o) /\ TransformOf(o)' # TransformOf(o)) =>
              /\ o \in scene
              /\ calls' = calls
              /\ \A q \in ObjectIds \ {o} :
                     Exists(q) => TransformOf(q)' = TransformOf(q)]_vars

C11_Witness ==
    \E c, d \in scene :
        /\ c # d
        /\ calls[c].gltf = calls[d].gltf
        /\ calls[c].transform # None
        /\ TransformOf(InstanceOf(c)) # ConfiguredTransform(c)
        /\ TransformOf(InstanceOf(d)) = ConfiguredTransform(d)
        /\ TransformOf(InstanceOf(d)) # TransformOf(InstanceOf(c))
        /\ TransformOf(AssetOf(calls[c].gltf)) = Authored

(***************************************************************************)
(* Instances and their materials                                           *)
(***************************************************************************)

\* Assets of no material, of one full batch, of a batch and one material
\* more, and of three batches.
MaterialCounts == {0, batchSize, batchSize + 1, 2 * batchSize + 1}

MaxMaterialCalls == 2

\* The application schedules a task with setTimeout, once.  `at` records
\* the calls that are then in the first yield of their material loop.
ScheduleTask ==
    /\ EnvCanRun
    /\ task.state = "none"
    /\ task' = [state |-> "scheduled", saw |-> {},
                at |-> {c \in Yielding : calls[c].yields = 1}]
    /\ timers' = Append(timers, <<"task", 0>>)
    /\ running' = (microtasks # <<>>)
    /\ UNCHANGED <<impl, ui, report, removed, progressive, disposables, modelCache,
                   loadingPromises, loadedModels, scene, loadingStats, fetches,
                   calls, microtasks, clears, graph>>

\* loadModel for the one asset, with or without material processing, under
\* a materialConfig or under null.
LoadModelMaterials(n, pm, mc) ==
    /\ Len(calls) < MaxMaterialCalls
    /\ LoadModelWith(Config(TheAsset, n, None, pm, mc))

NextMaterials ==
    \/ \E n \in Names, pm \in BOOLEAN, mc \in MaterialConfigs \cup {NullConfig} :
           LoadModelMaterials(n, pm, mc)
    \/ \E f \in 1..MaxCalls, ok \in BOOLEAN, m \in MaterialCounts : SettleWith(f, ok, m)
    \/ RunMicrotask
    \/ TimerFires
    \/ ScheduleTask
    \/ EndJob

SpecMaterials == Init /\ [][NextMaterials]_vars

\* The materials reachable from object o, and their values.
MaterialsOf(o) == materials[objects[o].material]

\* The instances whose clone has been made.
Cloned == {c \in DOMAIN calls : Exists(InstanceOf(c))}

(***************************************************************************)
(* C12  Producing instances from a cached record, also with                *)
(* processMaterials, never mutates the record: every material of the       *)
(* cached scene graph keeps the value it was parsed with, and no instance  *)
(* shares a material with the record or with another instance.             *)
(***************************************************************************)
C12_RecordNeverMutated ==
    IsOptimized =>
        /\ \A f \in DOMAIN fetches : Outcome(f) = "resolved" =>
               \A k \in DOMAIN MaterialsOf(AssetOf(f)) :
                   MaterialsOf(AssetOf(f))[k] = "parsed"
        /\ \A c \in Cloned : MaterialsOf(InstanceOf(c)) # <<>> =>
               /\ objects[InstanceOf(c)].material
                      # objects[AssetOf(calls[c].gltf)].material
               /\ \A d \in Cloned \ {c} :
                      objects[InstanceOf(c)].material # objects[InstanceOf(d)].material

\* The live instances produced under name n.
LiveUnder(n) == {i \in scene : \E c \in DOMAIN calls : i = InstanceOf(c) /\ calls[c].name = n}

(***************************************************************************)
(* C13  A name is associated with at most one live instance: at most one   *)
(* instance produced under a name is in the scene, and it is the one the   *)
(* name-to-instance table registers.                                       *)
(***************************************************************************)
C13_OneLiveInstancePerName ==
    \A n \in Names :
        /\ Cardinality(LiveUnder(n)) <= 1
        /\ LiveUnder(n) \subseteq {loadedModels[n]}

\* Call c runs processMaterialsAsync, and its createInstance has completed.
Processing(c) == IsOptimized /\ calls[c].processMaterials
Completed(c) == calls[c].pc \in {"inst", "returned"}

\* The number of batches of call c's material loop.
Batches(c) == (Len(MaterialsOf(InstanceOf(c))) + batchSize - 1) \div batchSize

(***************************************************************************)
(* C14  processMaterialsAsync processes at most 5 materials between two    *)
(* consecutive yields; an instantiation of more than one batch has yielded *)
(* before it completes; and a task scheduled while such an instantiation   *)
(* is in its first yield runs before the instantiation completes, while it *)
(* is suspended, not after it.                                             *)
(***************************************************************************)
C14_YieldsBetweenBatches ==
    \A c \in DOMAIN calls : Processing(c) =>
        /\ calls[c].batch <= batchSize
        /\ (Completed(c) /\ Batches(c) > 1) => calls[c].yields >= Batches(c) - 1
        /\ (Completed(c) /\ Batches(c) > 1 /\ c \in task.at) =>
               task.state = "ran" /\ c \in task.saw

C14_Witness ==
    \E c \in DOMAIN calls :
        /\ Processing(c)
        /\ Completed(c)
        /\ Batches(c) = 3
        /\ c \in task.at
        /\ c \in task.saw

\* The step is a clearCache call.
Clearing == clears' = clears + 1

\* The record of fetch f is stored in this step: by onLoad in
\* OptimizedModelLoader, by the continuation of the call that started the
\* load in ModelLoader.
Storing(f) ==
    IF IsOptimized
    THEN Outcome(f) = "pending" /\ Outcome(f)' = "resolved"
    ELSE /\ Outcome(f) = "resolved"
         /\ calls[Starter(f)].pc = "file"
         /\ calls'[Starter(f)].pc # "file"

(***************************************************************************)
(* C15  clearCache empties modelCache and leaves every load in flight      *)
(* pending, with the calls awaiting it; a load that was in flight during a *)
(* clearCache still stores its record when it settles, and the calls that  *)
(* awaited it receive their instances.                                     *)
(***************************************************************************)
C15_ClearKeepsLoadsInFlight ==
    /\ [][Clearing =>
             /\ \A p \in Paths : modelCache'[p] = None
             /\ calls' = calls
             /\ \A f \in DOMAIN fetches :
                    /\ Outcome(f)' = Outcome(f)
                    /\ fetches'[f].reactions = fetches[f].reactions]_vars
    /\ [][\A f \in DOMAIN fetches :
             (fetches[f].cleared /\ Storing(f)) => modelCache'[fetches[f].path] = f]_vars
    /\ [](\A f \in DOMAIN fetches :
             (fetches[f].cleared /\ Outcome(f) = "resolved" /\ microtasks = <<>>) =>
                 \A c \in Attached(f) : Fulfilled(c) /\ InstanceOf(c) \in scene)

C15_Witness ==
    \E f \in DOMAIN fetches :
        /\ fetches[f].cleared
        /\ Outcome(f) = "resolved"
        /\ microtasks = <<>>
        /\ Cardinality(Attached(f)) >= 2
        /\ \A c \in Attached(f) : Fulfilled(c) /\ InstanceOf(c) \in scene
        /\ modelCache[fetches[f].path] = f

\* Instantiation throws in this step for call c (a call made in this step
\* or an earlier one).
Throwing(c) ==
    /\ c \in DOMAIN calls'
    /\ calls'[c].error = InstantiationError
    /\ c \in DOMAIN calls => calls[c].error = None

(***************************************************************************)
(* C16  When instantiation throws after the asset was loaded, the record   *)
(* of the path stays in modelCache (in OptimizedModelLoader the step       *)
(* changes neither the cache nor a material of the record), no pending     *)
(* entry for the path remains, and the failed call leaves no entry in      *)
(* loadedModels and no instance in the scene.                              *)
(***************************************************************************)
C16_InstantiationFailureKeepsRecord ==
    /\ [][\A c \in 1..MaxCalls : Throwing(c) =>
             /\ modelCache'[calls'[c].path] = calls'[c].gltf
             /\ IsOptimized => (modelCache' = modelCache /\ materials' = materials)
             /\ loadingPromises'[calls'[c].path] = None
             /\ scene' = scene
             /\ loadedModels' = loadedModels]_vars
    /\ [](\A c \in DOMAIN calls : calls[c].error = InstantiationError =>
             /\ modelCache[calls[c].path] # None
             /\ loadingPromises[calls[c].path] = None
             /\ InstanceOf(c) \notin scene
             /\ \A n \in Names : loadedModels[n] # InstanceOf(c)
             /\ calls[c].pc \in {"materials", "thrown"})

C16_Witness ==
    \E c, d \in DOMAIN calls :
        /\ IsOptimized
        /\ RejectedWith(c, InstantiationError)
        /\ calls[c].branch = "wait"
        /\ Fulfilled(d)
        /\ modelCache[calls[c].path] = calls[c].gltf
        /\ scene = {InstanceOf(d)}

(***************************************************************************)
(* Cache statistics                                                        *)
(***************************************************************************)

\* `cachedModels: this.modelCache.size`
CachedModels_WithPending ==
    Cardinality({p \in Paths : modelCache[p] # None \/ loadingPromises[p] # None})

CachedModels == Cardinality({p \in Paths : modelCache[p] # None})

\* The record getCacheStats returns, without the two derived rates.
CacheStats ==
    [totalLoads |-> loadingStats.totalLoads,
     cacheHits |-> loadingStats.cacheHits,
     cachedModels |-> CachedModels]

\* How many loadModel and clearCache calls have been made.
Epoch == [calls |-> Len(calls), clears |-> clears]

\* How many loads have delivered their asset to onLoad.
Arrived == Cardinality({f \in DOMAIN fetches : Outcome(f) = "resolved"})

\* The application calls getCacheStats().  report keeps what the call
\* returned and, before it, what the previous call returned when no
\* loadModel or clearCache call lies between the two.
GetCacheStats ==
    LET now == [stats |-> CacheStats, epoch |-> Epoch, arrived |-> Arrived]
    IN  /\ IsOptimized
        /\ EnvCanRun
        /\ report' = IF report # <<>> /\ report[Len(report)].epoch = Epoch
                     THEN <<report[Len(report)], now>>
                     ELSE <<now>>
        /\ running' = (microtasks # <<>>)
        /\ UNCHANGED <<impl, ui, task, removed, progressive, disposables, modelCache,
                       loadingPromises, loadedModels, scene, loadingStats, fetches,
                       calls, microtasks, clears, timers, graph>>

InitStats == Init /\ IsOptimized

\* What the application observes (a statistics report, a removal) is
\* followed over this many loadModel calls.
MaxObservedCalls == 2

LoadModelObserved(p, n) ==
    /\ Len(calls) < MaxObservedCalls
    /\ LoadModel(p, n)

NextStats ==
    \/ \E p \in Paths, n \in Names : LoadModelObserved(p, n)
    \/ \E f \in 1..MaxCalls, ok \in BOOLEAN : Settle(f, ok)
    \/ RunMicrotask
    \/ ClearCache
    \/ EndJob
    \/ GetCacheStats

SpecStats == InitStats /\ [][NextStats]_vars

Reporting == report' # report
Consecutive == Len(report) = 2

\* getCacheStats changes nothing of the loader.
PureRead ==
    [][Reporting => UNCHANGED <<modelCache, loadingPromises, loadedModels,
                                loadingStats, scene, fetches, calls>>]_vars

(***************************************************************************)
(* C17 (as stated)  getCacheStats changes nothing of the loader, and two   *)
(* consecutive calls with no loadModel or clearCache call between them     *)
(* report the same requests, hits and cached-asset count.                  *)
(***************************************************************************)
C17_PureReadSameReport ==
    /\ PureRead
    /\ [](Consecutive => report[1].stats = report[2].stats)

(***************************************************************************)
(* C17 (amended)  getCacheStats changes nothing of the loader; two         *)
(* consecutive calls with no loadModel or clearCache call between them     *)
(* report the same requests and hits, and the same cached-asset count      *)
(* when no load delivered its asset between them.                          *)
(***************************************************************************)
C17_PureReadSameCounters ==
    /\ PureRead
    /\ [](Consecutive =>
             /\ report[1].stats.totalLoads = report[2].stats.totalLoads
             /\ report[1].stats.cacheHits = report[2].stats.cacheHits
             /\ report[1].arrived = report[2].arrived
                    => report[1].stats = report[2].stats)

C17_Witness ==
    /\ Consecutive
    /\ report[1].arrived = report[2].arrived
    /\ report[2].stats = CacheStats
    /\ report[2].stats.cachedModels > 0
    /\ report[2].stats.cacheHits > 0

(***************************************************************************)
(* Removal of an instance by name (ModelLoader)                            *)
(***************************************************************************)

\* `this.scene.remove(model)`
SceneAfterRemove(model) == scene \ {model}

\* `this.loadedModels.delete(name)`
LoadedAfterRemove_Kept(n) == loadedModels

LoadedAfterRemove(n) == [loadedModels EXCEPT ![n] = None]

\* The application calls removeModel(n).  removed keeps the name, the
\* instance the name was registered to, and the value returned.
RemoveModel(n) ==
    LET model == loadedModels[n]
    IN  /\ ~IsOptimized
        /\ EnvCanRun
        /\ IF model # None
           THEN /\ scene' = SceneAfterRemove(model)
                /\ loadedModels' = LoadedAfterRemove(n)
                /\ removed' = <<n, model, TRUE>>
           ELSE /\ removed' = <<n, None, FALSE>>
                /\ UNCHANGED <<scene, loadedModels>>
        /\ running' = (microtasks # <<>>)
        /\ UNCHANGED <<impl, ui, task, report, progressive, disposables, modelCache,
                       loadingPromises, loadingStats, fetches, calls, microtasks,
                       clears, timers, graph>>

InitRemove == Init /\ ~IsOptimized

NextRemove ==
    \/ \E p \in Paths, n \in Names : LoadModelObserved(p, n)
    \/ \E f \in 1..MaxCalls, ok \in BOOLEAN : Settle(f, ok)
    \/ RunMicrotask
    \/ ClearCache
    \/ EndJob
    \/ \E n \in Names : RemoveModel(n)

SpecRemove == InitRemove /\ [][NextRemove]_vars

\* removeModel(n) is called in this step.  A call that returns what the
\* call before it returned, for the same name, changed nothing.
Removing(n) == removed' # removed /\ removed'[1] = n

(***************************************************************************)
(* C18  ModelLoader.removeModel(name) for a registered name takes the      *)
(* instance out of the scene and deletes the name's entry in one step and  *)
(* returns true; for an unregistered name it returns false and changes     *)
(* neither; in both cases modelCache and loadingPromises stay as they are. *)
(***************************************************************************)
C18_RemoveModel ==
    [][\A n \in Names : Removing(n) =>
          /\ IF loadedModels[n] # None
             THEN /\ removed'[3] = TRUE
                  /\ loadedModels[n] \notin scene'
                  /\ scene' = scene \ {loadedModels[n]}
                  /\ loadedModels'[n] = None
                  /\ \A k \in Names \ {n} : loadedModels'[k] = loadedModels[k]
             ELSE /\ removed'[3] = FALSE
                  /\ scene' = scene
                  /\ loadedModels' = loadedModels
          /\ modelCache' = modelCache
          /\ loadingPromises' = loadingPromises
          /\ UNCHANGED <<fetches, calls, microtasks>>]_vars

C18_Witness ==
    /\ removed # <<>>
    /\ removed[3] = TRUE
    /\ removed[2] \notin scene
    /\ loadedModels[removed[1]] = None
    /\ \E p \in Paths : modelCache[p] # None
    /\ \E p \in Paths : loadingPromises[p] # None

(***************************************************************************)
(* Progressive loading of a list of configs (OptimizedModelLoader)         *)
(***************************************************************************)

\* The lists handed to loadModelsProgressively, and what the onProgress
\* callback does when called: there is none, it returns, or it throws.
ConfigLists ==
    UNION {[1..k -> {Plain(p, n) : p \in Paths, n \in Names}] : k \in 0..MaxObservedCalls}
Callbacks == {"none", "returns", "throws"}

Loop == <<"loop", 0>>

\* The head of the for loop with index i: the next loadModel call, or the
\* return of results.
LoopAt(i, results, progress) ==
    [progressive EXCEPT !.pc = IF i < Len(progressive.configs) THEN "call" ELSE "done",
                        !.i = i, !.results = results, !.progress = progress]

\* The application calls loadModelsProgressively(configs, onProgress).
LoadModelsProgressively(configs, cb) ==
    /\ IsOptimized
    /\ EnvCanRun
    /\ progressive.pc = "idle"
    /\ progressive' = [pc |-> IF configs = <<>> THEN "done" ELSE "call",
                       configs |-> configs, onProgress |-> cb, i |-> 0, call |-> 0,
                       results |-> <<>>, progress |-> <<>>]
    /\ running' = TRUE
    /\ UNCHANGED <<impl, ui, task, report, removed, disposables, modelCache,
                   loadingPromises, loadedModels, scene, loadingStats, fetches,
                   calls, microtasks, clears, timers, graph>>

\* `await this.loadModel(config)`: the call, up to its first suspension.
ProgressiveLoad ==
    /\ progressive.pc = "call"
    /\ EnvCanRun
    /\ Len(calls) < MaxCalls
    /\ OptimizedLoadModel(progressive.configs[progressive.i + 1])
    /\ progressive' = [progressive EXCEPT !.pc = "await", !.call = Len(calls) + 1]
    /\ running' = (microtasks' # <<>>)
    /\ UNCHANGED <<impl, ui, task, report, removed, disposables, clears>>

\* The loop resumes from `await this.loadModel(config)`.  A model is pushed
\* and onProgress called; when onProgress throws, or loadModel did, the
\* catch block pushes null and the loop goes on without the yield.
ResumeLoop ==
    /\ ~running
    /\ microtasks # <<>>
    /\ progressive.pc = "await"
    /\ Head(microtasks) = Caller(progressive.call)
    /\ LET c == progressive.call
           i == progressive.i
           cb == progressive.onProgress
           pushed == Append(progressive.results, InstanceOf(c))
           called == IF cb = "none" THEN progressive.progress
                     ELSE Append(progressive.progress, i + 1)
       IN  IF calls[c].pc = "returned" /\ cb # "throws"
           THEN /\ progressive' = [progressive EXCEPT !.pc = "yield", !.results = pushed,
                                                      !.progress = called]
                /\ timers' = Append(timers, Loop)
           ELSE /\ progressive' =
                       IF calls[c].pc = "returned"
                       THEN LoopAt(i + 1, Append(pushed, None), called)
                       ELSE LoopAt(i + 1, Append(progressive.results, None),
                                   progressive.progress)
                /\ timers' = timers
    /\ microtasks' = Tail(microtasks)
    /\ running' = (progressive'.pc = "call" \/ microtasks' # <<>>)
    /\ UNCHANGED <<impl, ui, task, report, removed, disposables, modelCache,
                   loadingPromises, loadedModels, scene, loadingStats, fetches,
                   calls, clears, graph>>

\* The loop resumes from `await this.yieldControl()`.
ResumeLoopYield ==
    /\ ~running
    /\ microtasks # <<>>
    /\ Head(microtasks) = Loop
    /\ progressive' = LoopAt(progressive.i + 1, progressive.results, progressive.progress)
    /\ microtasks' = Tail(microtasks)
    /\ running' = (progressive'.pc = "call" \/ microtasks' # <<>>)
    /\ UNCHANGED <<impl, ui, task, report, removed, disposables, modelCache,
                   loadingPromises, loadedModels, scene, loadingStats, fetches,
                   calls, clears, timers, graph>>

\* A continuation of a loadModel call runs.
RunLoaderMicrotask ==
    /\ microtasks # <<>>
    /\ Head(microtasks)[1] = "cont"
    /\ RunMicrotask

\* The job that called loadModelsProgressively, or resumed it, ends.
EndLoopJob ==
    /\ progressive.pc # "call"
    /\ EndJob

NextProgressive ==
    \/ \E configs \in ConfigLists, cb \in Callbacks : LoadModelsProgressively(configs, cb)
    \/ ProgressiveLoad
    \/ \E f \in 1..MaxCalls, ok \in BOOLEAN : Settle(f, ok)
    \/ RunLoaderMicrotask
    \/ ResumeLoop
    \/ ResumeLoopYield
    \/ TimerFires
    \/ EndLoopJob

SpecProgressive == InitStats /\ [][NextProgressive]_vars

\* The loop has returned its results.  The i-th load is call i, the loop
\* being the only caller.
Returned == progressive.pc = "done"
Failed(i) == calls[i].pc = "thrown"
Successes ==
    SelectSeq([k \in 1..Len(progressive.configs) |-> k], LAMBDA k : ~Failed(k))

(***************************************************************************)
(* C19  loadModelsProgressively loads the configs one after another in     *)
(* list order and returns a list as long as the input whose i-th entry is  *)
(* null exactly when the i-th load failed; a failed load does not stop     *)
(* the later ones, and onProgress is called once per successful load with  *)
(* current = i + 1.                                                        *)
(***************************************************************************)
C19_ProgressiveResults ==
    /\ \A c \in DOMAIN calls :
           /\ c <= Len(progressive.configs)
           /\ calls[c].path = progressive.configs[c].path
           /\ calls[c].name = progressive.configs[c].name
           /\ c < Len(calls) => Settled(c)
    /\ Returned =>
           /\ Len(calls) = Len(progressive.configs)
           /\ Len(progressive.results) = Len(progressive.configs)
           /\ \A i \in 1..Len(progressive.configs) :
                  /\ progressive.results[i] = None <=> Failed(i)
                  /\ ~Failed(i) => progressive.results[i] = InstanceOf(i)
           /\ progressive.onProgress # "none" => progressive.progress = Successes

(***************************************************************************)
(* The memory manager and the objects registered with it                   *)
(***************************************************************************)

\* What `object.parent` reads as.  OptimizedModelLoader has no such
\* property; the renderer is a library object, so either reading is allowed.
Parents == {"undefined", "object"}
LoaderItem == [name |-> "loader", parent |-> "undefined"]
RendererItem(q) == [name |-> "renderer", parent |-> q]

\* The state when init() has registered the renderer and the loader and
\* has started the monitoring.
InitMemory ==
    /\ InitLoader
    /\ IsOptimized
    /\ task = NoTask
    /\ report = <<>>
    /\ removed = <<>>
    /\ progressive = Idle
    /\ InitUi
    /\ \E q \in Parents : disposables = {RendererItem(q), LoaderItem}

\* isObjectUnused(object).  Neither registered object has children and a
\* material, so the second test never applies.
IsObjectUnused(item) == item.parent \in {"null", "undefined"}

\* The items a cleanup disposes: all of them when forced, else the ones
\* that look unused.
Disposed(forced) ==
    IF forced THEN disposables ELSE {item \in disposables : IsObjectUnused(item)}

\* The items are disposed and unregistered.  OptimizedModelLoader.dispose()
\* is clearCache() followed by loadedModels.clear().
Cleanup(forced) ==
    /\ disposables' = disposables \ Disposed(forced)
    /\ IF LoaderItem \in Disposed(forced)
       THEN /\ modelCache' = [p \in Paths |-> None]
            /\ loadingPromises' = [p \in Paths |-> None]
            /\ loadedModels' = [n \in Names |-> None]
            /\ fetches' = [f \in DOMAIN fetches |->
                             IF fetches[f].state = "pending"
                             THEN [fetches[f] EXCEPT !.cleared = TRUE] ELSE fetches[f]]
            /\ clears' = clears + 1
       ELSE UNCHANGED <<modelCache, loadingPromises, loadedModels, fetches, clears>>
    /\ UNCHANGED <<impl, ui, task, report, removed, progressive, scene, loadingStats,
                   calls, microtasks, running, timers, graph>>

\* The tab becomes hidden: the handler calls cleanupUnused().
VisibilityHidden ==
    /\ ~running
    /\ microtasks = <<>>
    /\ Cleanup(FALSE)

\* The monitoring interval fires: logMemoryUsage(), which forces a cleanup
\* when the heap is nearly full, then cleanupUnused().
MonitorTick(high) ==
    /\ ~running
    /\ microtasks = <<>>
    /\ Cleanup(high)

NextMemory ==
    \/ \E p \in Paths, n \in Names : LoadModelObserved(p, n)
    \/ \E f \in 1..MaxCalls, ok \in BOOLEAN : Settle(f, ok)
    \/ RunMicrotask
    \/ EndJob
    \/ VisibilityHidden
    \/ \E high \in BOOLEAN : MonitorTick(high)

SpecMemory == InitMemory /\ [][NextMemory]_vars

IsRegistered(name) == \E item \in disposables : item.name = name

(***************************************************************************)
(* C20  The loader and the renderer that init() registers stay registered  *)
(* and undisposed while the application runs: no monitoring tick and no    *)
(* tab-hidden cleanup disposes them, so the loader's cache and name table  *)
(* survive every cleanup.                                                  *)
(***************************************************************************)
C20_CleanupSparesObjectsInUse ==
    /\ [][disposables' # disposables =>
             /\ modelCache' = modelCache
             /\ loadedModels' = loadedModels]_vars
    /\ [](IsRegistered("loader") /\ IsRegistered("renderer"))

(***************************************************************************)
(* Drag controls: the number keys and the objects they select              *)
(***************************************************************************)

\* A name is the sequence of its words, the words being what the spaces
\* separate.  An object of the drag list is identified with its
\* userData.name, which main.js makes unique.
MainNames ==
    << <<"Corona", "Extra">>, <<"Corona", "Bottle">>, <<"Egg", "Carton">>,
       <<"Open", "Egg", "Carton">>, <<"Cheese">>, <<"Pickled", "Cucumbers">>,
       <<"Banana", "Crate">>, <<"AA", "Batteries">> >>

\* `for (let i = 1; i <= 5; i++)` creates the eggs; egg i is named `Egg i`.
EggCount == 5
Digits == <<"1", "2", "3", "4", "5">>
EggName(i) == <<"Egg", Digits[i]>>
IsEggName(name) == \E i \in 1..EggCount : name = EggName(i)

\* objectMapping[key].name
MappingName(key) == IF key = 9 THEN <<"Egg">> ELSE MainNames[key]

\* objectName.startsWith(word + ' ')
StartsWith(name, word) == Len(name) > 1 /\ name[1] = word

\* The list initializeDragControls builds: the main objects whose getter
\* returned an object, in the order of the code, then the eggs that did.
RECURSIVE Pick(_, _, _)
Pick(names, chosen, i) ==
    IF i > Len(names) THEN <<>>
    ELSE (IF i \in chosen THEN <<names[i]>> ELSE <<>>) \o Pick(names, chosen, i + 1)

DragObjects(main, eggs) ==
    Pick(MainNames, main, 1) \o Pick([i \in 1..EggCount |-> EggName(i)], eggs, 1)

\* The body of the inner forEach, for one object and one key.
MapKey(mapping, obj, key) ==
    IF MappingName(key) = obj THEN obj
    ELSE IF MappingName(key) = <<"Egg">> /\ StartsWith(obj, "Egg") /\ mapping[key] = Null
         THEN obj
         ELSE mapping[key]

\* The outer forEach over the list, from index i.
RECURSIVE MapObjects(_, _, _)
MapObjects(mapping, list, i) ==
    IF i > Len(list) THEN mapping
    ELSE MapObjects([key \in NumberKeys |-> MapKey(mapping, list[i], key)], list, i + 1)

\* ObjectDragControls after initializeDragObjects(list).
DragControlsWith(list) ==
    [NewDragControls EXCEPT
        !.allObjects = list,
        !.objectMapping = MapObjects(NewDragControls.objectMapping, list, 1),
        !.listening = TRUE]

\* initializeDragControls(): a new ObjectDragControls, and
\* initializeDragObjects(dragObjects) when the list is not empty.
InitializeDragControls(main, eggs) ==
    LET list == DragObjects(main, eggs)
    IN  /\ ~drag.listening
        /\ list # <<>>
        /\ drag' = DragControlsWith(list)
        /\ UNCHANGED <<loader, around, camera, keyboard, page, food, door>>

NextMapping ==
    \E main \in SUBSET (1..Len(MainNames)), eggs \in SUBSET (1..EggCount) :
        InitializeDragControls(main, eggs)

SpecMapping == Init /\ [][NextMapping]_vars

\* The list when every object was loaded.
FullList == DragObjects(1..Len(MainNames), 1..EggCount)

MappedKeys == {key \in NumberKeys : drag.objectMapping[key] # Null}
Listed(name) == \E i \in 1..Len(drag.allObjects) : drag.allObjects[i] = name
FirstEgg ==
    drag.allObjects[CHOOSE i \in 1..Len(drag.allObjects) :
                        /\ IsEggName(drag.allObjects[i])
                        /\ \A j \in 1..(i - 1) : ~IsEggName(drag.allObjects[j])]

(***************************************************************************)
(* C21  After initializeDragObjects received the list main.js builds,      *)
(* each key 1-8 is mapped to the object whose name is the key's name,      *)
(* key 9 is mapped to the first individual egg (`Egg N`), and no two keys  *)
(* are mapped to the same object.                                          *)
(***************************************************************************)
C21_KeysMapToTheirObjects ==
    drag.allObjects = FullList =>
        /\ \A key \in 1..8 :
               drag.objectMapping[key] = IF Listed(MappingName(key))
                                         THEN MappingName(key) ELSE Null
        /\ (\E name \in {EggName(i) : i \in 1..EggCount} : Listed(name))
               => drag.objectMapping[9] = FirstEgg
        /\ \A j, k \in MappedKeys : drag.objectMapping[j] = drag.objectMapping[k] => j = k

(***************************************************************************)
(* C22  In every interleaving of loadModel calls, load settlements and     *)
(* clearCache calls on one loader, at most one fetch per path is in        *)
(* flight at any time.                                                     *)
(***************************************************************************)
C22_OneFetchInFlightPerPath ==
    \A p \in Paths :
        Cardinality({f \in FetchesOf(p) : Outcome(f) = "pending"}) <= 1

(***************************************************************************)
(* The loading sequence of main.js and the loading screen                  *)
(***************************************************************************)

\* The awaited loads in the order of the code: the fridge, the kitchen,
\* the eight main food objects in the order of MainNames, the eggs.
Fridge == 1
Kitchen == 2
FirstFood == 3
FirstEggStep == FirstFood + Len(MainNames)
StepCount == FirstEggStep + EggCount - 1

\* What a load() does when the loader rejects: it rethrows, or it builds a
\* fallback object and returns it.  The class of the Corona bottle is not
\* among the sources, so either is allowed for it.
OnFailure(step) ==
    IF step \in {Fridge, Kitchen} THEN {"thrown"}
    ELSE IF step >= FirstEggStep THEN {"fallback"}
    ELSE IF MainNames[step - 2] = <<"Corona", "Bottle">> THEN {"thrown", "fallback"}
    ELSE IF MainNames[step - 2] \in {<<"Pickled", "Cucumbers">>, <<"Banana", "Crate">>,
                                     <<"AA", "Batteries">>}
         THEN {"fallback"}
         ELSE {"thrown"}

\* init(): the loading screen is shown and loadModels() runs up to the
\* loadModel call of loadFridgeModel.
InitPage ==
    /\ page.at = "idle"
    /\ page' = [page EXCEPT !.screen = "shown", !.at = "load", !.step = Fridge]
    /\ UNCHANGED <<loader, around, drag, camera, keyboard, food, door>>

\* Where the sequence goes when the awaited load() of the step has
\* returned or thrown.  A throw of the fridge or the kitchen ends
\* loadModels in its catch block; a throw of a food object ends
\* loadFoodObjects in its catch block, which schedules hide().
AfterLoad(step, outcome) ==
    IF step < FirstFood
    THEN IF outcome = "thrown" THEN "stopped" ELSE "load"
    ELSE IF outcome = "thrown" THEN "hiding" ELSE "pause"

\* The load the sequence awaits settles and load() returns or throws.
LoadSettles(outcome) ==
    /\ page.at = "load"
    /\ outcome \in {"loaded"} \cup OnFailure(page.step)
    /\ page' = [page EXCEPT !.results = Append(@, outcome),
                            !.at = AfterLoad(page.step, outcome),
                            !.step = IF AfterLoad(page.step, outcome) = "load"
                                     THEN @ + 1 ELSE @]
    /\ UNCHANGED <<loader, around, drag, camera, keyboard, food, door>>

\* The setTimeout after a food object or an egg fires: the next load, or
\* after the last egg initializeDragControls() and the timer of hide().
\* A fallback of the Corona bottle may or may not be what its getter returns.
PauseEnds(bottle) ==
    /\ page.at = "pause"
    /\ bottle \/ (Len(page.results) >= 4 /\ page.results[4] = "fallback")
    /\ IF page.step < StepCount
       THEN /\ page' = [page EXCEPT !.at = "load", !.step = @ + 1]
            /\ drag' = drag
       ELSE /\ page' = [page EXCEPT !.at = "hiding"]
            /\ drag' = DragControlsWith(
                           DragObjects((1..Len(MainNames)) \ (IF bottle THEN {} ELSE {2}),
                                       1..EggCount))
    /\ UNCHANGED <<loader, around, camera, keyboard, food, door>>

\* The timer of loadingScreen.hide() fires.
HideTimerFires ==
    /\ page.at = "hiding"
    /\ page' = [page EXCEPT !.at = "done", !.screen = "hidden"]
    /\ UNCHANGED <<loader, around, drag, camera, keyboard, food, door>>

NextPage ==
    \/ InitPage
    \/ \E outcome \in {"loaded", "fallback", "thrown"} : LoadSettles(outcome)
    \/ \E bottle \in BOOLEAN : PauseEnds(bottle)
    \/ HideTimerFires

\* Every load settles and every timer fires.
SpecPage == Init /\ [][NextPage]_vars /\ WF_vars(NextPage)

\* loadFoodObjects was entered and has returned.
FoodLoadingOver == Len(page.results) >= FirstFood /\ page.at \in {"hiding", "done"}

(***************************************************************************)
(* C23  A failure to load one food object does not prevent the remaining   *)
(* ones from being loaded: when loadFoodObjects has returned, the load()   *)
(* of every food object and egg was attempted and initializeDragControls   *)
(* was called.                                                             *)
(***************************************************************************)
C23_FoodLoadingContinues ==
    FoodLoadingOver => (Len(page.results) = StepCount /\ drag.listening)

(***************************************************************************)
(* C24  Once the loading screen is shown, and every load settles, hide()   *)
(* is eventually called, whatever the outcome of the fridge, kitchen and   *)
(* food loads.                                                             *)
(***************************************************************************)
C24_LoadingScreenHides == (page.screen = "shown") ~> (page.screen = "hidden")

(***************************************************************************)
(* Drag controls and camera controls on the keyboard                       *)
(***************************************************************************)

\* deselectObject(): the selection is dropped when there is one, and the
\* camera controls are switched on again by their flag.
Deselected(d) == [d EXCEPT !.selectedObject = Null, !.isDragging = FALSE]

\* selectObject(object, key)
Selected(d, object) == [d EXCEPT !.selectedObject = object, !.isDragging = TRUE]

\* What selectObject does to the camera controls:
\* `this.cameraControls.isEnabled = false`.
CameraWhenSelected_Kept == camera

CameraWhenSelected == [camera EXCEPT !.isEnabled = FALSE]
CameraWhenDeselected == [camera EXCEPT !.isEnabled = TRUE]

\* handleObjectSelection(key)
HandleObjectSelection(key) ==
    LET object == drag.objectMapping[key]
    IN  IF object = Null
        THEN UNCHANGED <<drag, camera>>
        ELSE IF drag.selectedObject = object
        THEN /\ drag' = Deselected(drag)
             /\ camera' = CameraWhenDeselected
        ELSE /\ drag' = Selected(drag, object)
             /\ camera' = CameraWhenSelected

\* A keydown event of a number key: the camera controls have no case for
\* it, the drag controls handle it when they listen and are enabled.
NumberKeyDown(key) ==
    /\ IF drag.listening /\ drag.isEnabled
       THEN HandleObjectSelection(key)
       ELSE UNCHANGED <<drag, camera>>
    /\ UNCHANGED <<loader, around, keyboard, page, food, door>>

\* A keydown event of a movement key, the first or a repeat.  The flags
\* of camera.keys are named here by the key that sets them.
MoveKeyDown(code) ==
    /\ keyboard' = keyboard \cup {code}
    /\ camera' = IF camera.isEnabled
                 THEN [camera EXCEPT !.keys[code] = TRUE] ELSE camera
    /\ UNCHANGED <<loader, around, drag, page, food, door>>

\* The keyup event of a movement key that is held.
MoveKeyUp(code) ==
    /\ code \in keyboard
    /\ keyboard' = keyboard \ {code}
    /\ camera' = IF camera.isEnabled
                 THEN [camera EXCEPT !.keys[code] = FALSE] ELSE camera
    /\ UNCHANGED <<loader, around, drag, page, food, door>>

\* setEnabled(enabled)
SetEnabled(enabled) ==
    /\ IF ~enabled /\ drag.selectedObject # Null
       THEN /\ drag' = [Deselected(drag) EXCEPT !.isEnabled = enabled]
            /\ camera' = CameraWhenDeselected
       ELSE /\ drag' = [drag EXCEPT !.isEnabled = enabled]
            /\ camera' = camera
    /\ UNCHANGED <<loader, around, keyboard, page, food, door>>

\* The objects removed from the drag list so far are at most this many.
MaxRemovals == 1

Without(list, object) == SelectSeq(list, LAMBDA o : o # object)

\* removeDragObject(object) for an object of the list.
RemoveDragObject(object) ==
    /\ \E i \in 1..Len(drag.allObjects) : drag.allObjects[i] = object
    /\ Len(FullList) - Len(drag.allObjects) < MaxRemovals
    /\ LET d == IF drag.selectedObject = object THEN Deselected(drag) ELSE drag
       IN  drag' = [d EXCEPT !.allObjects = Without(@, object),
                             !.objectMapping = [key \in NumberKeys |->
                                                   IF @[key] = object THEN Null ELSE @[key]]]
    /\ camera' = IF drag.selectedObject = object THEN CameraWhenDeselected ELSE camera
    /\ UNCHANGED <<loader, around, keyboard, page, food, door>>

\* dispose()
Dispose ==
    /\ drag.listening
    /\ drag' = [Deselected(drag) EXCEPT !.allObjects = <<>>,
                                        !.objectMapping = [key \in NumberKeys |-> Null],
                                        !.listening = FALSE]
    /\ camera' = IF drag.selectedObject # Null THEN CameraWhenDeselected ELSE camera
    /\ UNCHANGED <<loader, around, keyboard, page, food, door>>

\* The movement keys followed: one plain key and one of the vertical pair.
TrackedKeys == {"KeyW", "KeyQ"}

NextDrag ==
    \/ InitializeDragControls(1..Len(MainNames), 1..EggCount)
    \/ \E key \in NumberKeys : NumberKeyDown(key)
    \/ \E code \in TrackedKeys : MoveKeyDown(code)
    \/ \E code \in TrackedKeys : MoveKeyUp(code)
    \/ \E enabled \in BOOLEAN : SetEnabled(enabled)
    \/ \E object \in {FullList[i] : i \in 1..Len(FullList)} : RemoveDragObject(object)
    \/ Dispose

SpecDrag == Init /\ [][NextDrag]_vars

(***************************************************************************)
(* C25  Whenever the camera controls are enabled, a movement flag of       *)
(* camera.keys is true only if its key is held down: a movement key        *)
(* released while an object is selected is not still registered as         *)
(* pressed after the object is deselected.                                 *)
(***************************************************************************)
C25_FlagsFollowHeldKeys ==
    camera.isEnabled => \A code \in MoveKeys : camera.keys[code] => code \in keyboard

\* The key of the selected object is pressed in this step and the drag
\* controls handle it.
PressingSelected(key) ==
    /\ drag.listening /\ drag.isEnabled
    /\ drag.selectedObject # Null
    /\ drag.selectedObject = drag.objectMapping[key]
    /\ NumberKeyDown(key)

(***************************************************************************)
(* C26  isDragging is true exactly when selectedObject is non-null, the    *)
(* selected object is one of the list, the camera controls are disabled    *)
(* exactly when an object is selected, no object is selected while the     *)
(* drag controls are disabled, and pressing the key of the selected        *)
(* object deselects it.                                                    *)
(***************************************************************************)
C26_SelectionInvariants ==
    /\ [](/\ drag.isDragging <=> drag.selectedObject # Null
          /\ drag.selectedObject # Null => Listed(drag.selectedObject)
          /\ ~camera.isEnabled <=> drag.selectedObject # Null
          /\ ~drag.isEnabled => drag.selectedObject = Null)
    /\ [][\A key \in NumberKeys :
             PressingSelected(key) =>
                 (drag'.selectedObject = Null /\ ~drag'.isDragging)]_vars

C26_Witness ==
    /\ drag.selectedObject = <<"Cheese">>
    /\ drag.isDragging
    /\ ~camera.isEnabled
    /\ Len(drag.allObjects) < Len(FullList)
    /\ keyboard # {}

\* ---------------------------------------------------------------------
\* FoodObjectManager: the registry of food objects and the list of the
\* interactable ones that raycasting reads.
\* ---------------------------------------------------------------------

\* The longest interactableObjects list explored.
MaxInteractable == 3

\* registerFoodObject(name, object, metadata): the entry of the name is set,
\* replacing the one it had; an interactable object is pushed on the list and
\* marked.  metadata.interactable is false or left out.
RegisterFoodObject(name, object, interactable) ==
    /\ Len(food.interactableObjects) < MaxInteractable
    /\ food' =
         [food EXCEPT
            !.foodObjects[name] = [object |-> object, interactable |-> interactable],
            !.interactableObjects =
                IF interactable THEN Append(@, object) ELSE @,
            !.userData[object] = IF interactable THEN name ELSE @]
    /\ UNCHANGED <<loader, around, drag, camera, keyboard, page, door>>

\* indexOf(object): the first index of the object in the list, 0 when absent.
IndexOf(list, object) ==
    IF \E i \in 1..Len(list) : list[i] = object
    THEN CHOOSE i \in 1..Len(list) :
            /\ list[i] = object
            /\ \A j \in 1..(i - 1) : list[j] # object
    ELSE 0

\* splice(index, 1).
Splice(list, index) ==
    [i \in 1..(Len(list) - 1) |-> IF i < index THEN list[i] ELSE list[i + 1]]

\* removeFoodObject(name): nothing for a name without entry; else the object
\* leaves the scene, its first occurrence leaves the list, the entry is deleted.
RemoveFoodObject(name) ==
    /\ food.foodObjects[name] # NoItem
    /\ LET object == food.foodObjects[name].object
           index == IndexOf(food.interactableObjects, object)
       IN food' =
            [food EXCEPT
               !.scene = @ \ {object},
               !.interactableObjects = IF index > 0 THEN Splice(@, index) ELSE @,
               !.foodObjects[name] = NoItem]
    /\ UNCHANGED <<loader, around, drag, camera, keyboard, page, door>>

NextFood ==
    \/ \E name \in FoodNames, object \in FoodObjects, interactable \in BOOLEAN :
          RegisterFoodObject(name, object, interactable)
    \/ \E name \in FoodNames : RemoveFoodObject(name)

SpecFood == Init /\ [][NextFood]_vars

\* The registered interactable entries that hold the object, and the places
\* of the object in the list.
InteractableEntries(object) ==
    {n \in FoodNames : food.foodObjects[n] = [object |-> object, interactable |-> TRUE]}
Occurrences(object) ==
    {i \in 1..Len(food.interactableObjects) : food.interactableObjects[i] = object}

\* C27: after any sequence of registerFoodObject and removeFoodObject calls,
\* interactableObjects holds exactly the objects of the registered
\* interactable entries, once for each such entry, also when a name was
\* registered a second time.
C27_InteractableListMatchesEntries ==
    \A object \in FoodObjects :
        Cardinality(Occurrences(object)) = Cardinality(InteractableEntries(object))

\* ---------------------------------------------------------------------
\* The fridge doors: toggleUpperDoor and toggleLowerDoor, which differ in
\* the door and the axis only, and the animation frames they request.
\* Both doors were found in the scene.
\* ---------------------------------------------------------------------

\* The most toggles of one door explored.
MaxToggles == 3

\* Milliseconds.  Frames see the clock at multiples of Tick.
doorAnimationDuration == 1000
Tick == 500

\* Math.PI / 2, in a unit that keeps every rotation reached an integer: a
\* toggle during an animation starts from half of what was left.
RightAngle == 2 ^ MaxToggles

\* easeProgress, as a number of doorAnimationDuration^2-ths.
Ease(elapsedTime) ==
    IF 2 * elapsedTime < doorAnimationDuration
    THEN 2 * elapsedTime * elapsedTime
    ELSE (4 * doorAnimationDuration - 2 * elapsedTime) * elapsedTime
         - doorAnimationDuration * doorAnimationDuration

\* startRotation + (targetRotation - startRotation) * easeProgress.
Eased(d, elapsedTime) ==
    d.startRotation
    + ((d.targetRotation - d.startRotation) * Ease(elapsedTime))
      \div (doorAnimationDuration * doorAnimationDuration)

TargetRotation(d) == IF d.open THEN 0 ELSE RightAngle

\* toggleUpperDoor(), toggleLowerDoor(): a requested frame is cancelled, the
\* animation starts from the rotation the door has, towards closed when the
\* flag says open and towards open otherwise, and a frame is requested.
ToggleDoor(which) ==
    /\ door[which].toggles < MaxToggles
    /\ door' = [door EXCEPT ![which] =
                  [@ EXCEPT !.pending = TRUE,
                            !.startRotation = door[which].rotation,
                            !.targetRotation = TargetRotation(door[which]),
                            !.elapsed = 0,
                            !.toggles = @ + 1]]
    /\ UNCHANGED <<loader, around, drag, camera, keyboard, page, food>>

\* animateDoor, dt after the frame before it (or after the toggle): the door
\* is turned; before the duration is over the next frame is requested, else
\* the door is put on its target, the flag flips and no frame is left.
AnimateDoor(which, dt) ==
    /\ door[which].pending
    /\ LET d == door[which]
           elapsedTime == d.elapsed + dt
       IN door' = [door EXCEPT ![which] =
                     IF elapsedTime < doorAnimationDuration
                     THEN [d EXCEPT !.elapsed = elapsedTime,
                                    !.rotation = Eased(d, elapsedTime)]
                     ELSE [d EXCEPT !.elapsed = doorAnimationDuration,
                                    !.rotation = d.targetRotation,
                                    !.open = ~d.open,
                                    !.pending = FALSE]]
    /\ UNCHANGED <<loader, around, drag, camera, keyboard, page, food>>

NextDoor ==
    \/ \E which \in Doors : ToggleDoor(which)
    \/ \E which \in Doors, dt \in {0, Tick, 2 * Tick} : AnimateDoor(which, dt)

SpecDoor == Init /\ [][NextDoor]_vars

IsOpen(d) == d.open /\ d.rotation = RightAngle

\* C28: after k toggles of a door that was closed, however the calls are
\* timed and also when a call falls into a running animation, once no frame
\* is pending the door is open, flag true and rotation a right angle,
\* exactly when k is odd.
C28_OpenIffOddToggles ==
    \A which \in Doors :
        ~door[which].pending =>
            (IsOpen(door[which]) <=> door[which].toggles % 2 = 1)

====
